---- MODULE Spec2Model ----
\* Quick Create Event (src/src/quick-create-event.tsx, lines 1-429): the
\* duration extractor, the event resolver, the preview / submission
\* reconciler and the form component that drives them.
\*
\* Text is a sequence of one-character strings. Instants are whole minutes
\* since 00:00 UTC of day 0 (the code's millisecond arithmetic only ever adds
\* whole minutes to the parser's instants).
EXTENDS Integers, Sequences, FiniteSets, TLC

VARIABLES
    \* ---- the Command component (lines 167-331)
    inputValue,      \* useState("") line 170
    formInput,       \* the value of the field "input" (lines 326, 376-382), which
                     \* Action.SubmitForm hands to handleSubmit (line 348)
    parsed,          \* useState<ParsedEvent> line 171
    guestSearch,     \* useState("") line 180
    selectedGuests,  \* useState<string[]>([]) line 181
    pending,         \* calendar.events.insert calls awaiting their outcome
    calls,           \* every request handed to calendar.events.insert, in order
    toast,           \* the notification on screen (showToast replaces it)
    lastSubmit,      \* the latest handleSubmit run: its text and how it ended
    submits,         \* the number of handleSubmit runs so far
    stale,           \* per pending call: a text change was handled since its
                     \* submission started
    prefs,           \* preferences.defaultEventDuration (line 28)
    tz,              \* the host's local offset from UTC, in minutes
    \* ---- harness for the pure functions
    durIn, durOut, durOut2, durPc,
    recEv, recGuests, recPreview, recRequest, recLaunched, recPc

vars == <<inputValue, formInput, parsed, guestSearch, selectedGuests, pending, calls,
          toast, lastSubmit, submits, stale, prefs, tz,
          durIn, durOut, durOut2, durPc,
          recEv, recGuests, recPreview, recRequest, recLaunched, recPc>>

formVars == <<inputValue, formInput, parsed, guestSearch, selectedGuests, pending, calls,
              toast, lastSubmit, submits, stale>>
durVars  == <<durIn, durOut, durOut2, durPc>>
recVars  == <<recEv, recGuests, recPreview, recRequest, recLaunched, recPc>>

\* A value that may be null / undefined is <<>> when it is absent and <<v>>
\* when it is present; a capture group, never empty when it took part in the
\* match, is the empty string when it did not.
None == <<>>
Some(v) == <<v>>
isSome(o) == Len(o) > 0

----------------------------------------------------------------------------
\* Characters and strings

Digits == <<"0", "1", "2", "3", "4", "5", "6", "7", "8", "9">>
DigitSet == {Digits[i] : i \in 1..10}
LowerAlpha == <<"a", "b", "c", "d", "e", "f", "g", "h", "i", "j", "k", "l", "m",
                "n", "o", "p", "q", "r", "s", "t", "u", "v", "w", "x", "y", "z">>
UpperAlpha == <<"A", "B", "C", "D", "E", "F", "G", "H", "I", "J", "K", "L", "M",
                "N", "O", "P", "Q", "R", "S", "T", "U", "V", "W", "X", "Y", "Z">>
LowerSet == {LowerAlpha[i] : i \in 1..26}
UpperSet == {UpperAlpha[i] : i \in 1..26}
\* \s, \d and \w of the regular expressions.
WsSet == {" ", "\t", "\n", "\r"}
WordSet == DigitSet \cup LowerSet \cup UpperSet \cup {"_"}

LowerMap == [c \in UpperSet |-> LowerAlpha[CHOOSE i \in 1..26 : UpperAlpha[i] = c]]
\* Case folding of the /i flag.
Lower(c) == IF c \in UpperSet THEN LowerMap[c] ELSE c

DigitVal == [c \in DigitSet |-> (CHOOSE i \in 1..10 : Digits[i] = c) - 1]

RECURSIVE Pow10(_)
Pow10(k) == IF k = 0 THEN 1 ELSE 10 * Pow10(k - 1)

\* parseInt(s, 10) of a string of decimal digits.
RECURSIVE parseInt(_)
parseInt(s) ==
    IF Len(s) = 0 THEN 0
    ELSE 10 * parseInt(SubSeq(s, 1, Len(s) - 1)) + DigitVal[s[Len(s)]]

Min(S) == CHOOSE x \in S : \A y \in S : x <= y

\* String.prototype.indexOf: the first index (1-based) of w in s, 0 if none.
indexOf(s, w) ==
    LET hits == {i \in 1..(Len(s) - Len(w) + 1) : SubSeq(s, i, i + Len(w) - 1) = w}
    IN  IF hits = {} THEN 0 ELSE Min(hits)

\* String.prototype.includes.
includes(s, w) == indexOf(s, w) # 0

\* input.replace(w, ""): the first occurrence of the string w is removed.
replaceFirst(s, w) ==
    LET i == indexOf(s, w)
    IN  IF i = 0 THEN s
        ELSE SubSeq(s, 1, i - 1) \o SubSeq(s, i + Len(w), Len(s))

\* .replace(/\s+/g, " "): every run of whitespace becomes one space.
RECURSIVE collapseWs(_)
collapseWs(s) ==
    IF Len(s) = 0 THEN <<>>
    ELSE IF s[1] \in WsSet
         THEN IF Len(s) >= 2 /\ s[2] \in WsSet
              THEN collapseWs(Tail(s))
              ELSE <<" ">> \o collapseWs(Tail(s))
         ELSE <<s[1]>> \o collapseWs(Tail(s))

\* String.prototype.trim.
RECURSIVE trim(_)
trim(s) ==
    IF Len(s) = 0 THEN s
    ELSE IF s[1] \in WsSet THEN trim(Tail(s))
    ELSE IF s[Len(s)] \in WsSet THEN trim(SubSeq(s, 1, Len(s) - 1))
    ELSE s

----------------------------------------------------------------------------
\* Regular expressions: a backtracking matcher over pattern trees. M(re, s, st)
\* is the sequence of matcher states [pos, caps] in which re can end when it
\* starts in state st, in the order a backtracking engine tries them (greedy
\* quantifiers longest first, alternatives left to right).

Chr(set)    == [t |-> "chr", set |-> set]
WB          == [t |-> "wb"]
Cat(xs)     == [t |-> "cat", xs |-> xs]
Alt(xs)     == [t |-> "alt", xs |-> xs]
Opt(x)      == [t |-> "opt", x |-> x]
Plus(set)   == [t |-> "plus", set |-> set]
Star(set)   == [t |-> "star", set |-> set]
Grp(n, x)   == [t |-> "grp", n |-> n, x |-> x]
Lit(w)      == Cat([i \in 1..Len(w) |-> Chr({w[i]})])

isWordAt(s, i) == i >= 1 /\ i <= Len(s) /\ s[i] \in WordSet

\* The number of characters of `set` that follow position pos (case folded).
RECURSIVE runLen(_, _, _)
runLen(s, pos, set) ==
    IF pos <= Len(s) /\ Lower(s[pos]) \in set THEN 1 + runLen(s, pos + 1, set) ELSE 0

RECURSIVE M(_, _, _)
RECURSIVE MCat(_, _, _, _)
RECURSIVE MAlt(_, _, _, _)
RECURSIVE MEach(_, _, _, _)

\* re tried from every state of sts, in order.
MEach(re, s, sts, k) ==
    IF k > Len(sts) THEN <<>>
    ELSE M(re, s, sts[k]) \o MEach(re, s, sts, k + 1)

MCat(xs, s, sts, k) ==
    IF k > Len(xs) \/ Len(sts) = 0 THEN sts
    ELSE MCat(xs, s, MEach(xs[k], s, sts, 1), k + 1)

MAlt(xs, s, st, k) ==
    IF k > Len(xs) THEN <<>>
    ELSE M(xs[k], s, st) \o MAlt(xs, s, st, k + 1)

M(re, s, st) ==
    CASE re.t = "chr" ->
            IF st.pos <= Len(s) /\ Lower(s[st.pos]) \in re.set
            THEN <<[st EXCEPT !.pos = st.pos + 1]>> ELSE <<>>
      [] re.t = "wb" ->
            IF isWordAt(s, st.pos - 1) # isWordAt(s, st.pos) THEN <<st>> ELSE <<>>
      [] re.t = "cat" -> MCat(re.xs, s, <<st>>, 1)
      [] re.t = "alt" -> MAlt(re.xs, s, st, 1)
      [] re.t = "opt" -> M(re.x, s, st) \o <<st>>
      [] re.t = "plus" ->
            LET n == runLen(s, st.pos, re.set)
            IN  [j \in 1..n |-> [st EXCEPT !.pos = st.pos + (n + 1 - j)]]
      [] re.t = "star" ->
            LET n == runLen(s, st.pos, re.set)
            IN  [j \in 1..(n + 1) |-> [st EXCEPT !.pos = st.pos + (n + 1 - j)]]
      [] re.t = "grp" ->
            LET ends == M(re.x, s, st)
            IN  [j \in 1..Len(ends) |->
                    [ends[j] EXCEPT !.caps[re.n] = SubSeq(s, st.pos, ends[j].pos - 1)]]

NoCaps == <<<<>>, <<>>, <<>>>>

\* String.prototype.match with a non-global pattern: the match at the leftmost
\* start position at which the pattern matches, with the first way it matches
\* there, as Some([index, m0, g1, g2, g3]), or None. A group that took no part
\* is <<>>.
match(s, re) ==
    LET starts == {p \in 1..(Len(s) + 1) : Len(M(re, s, [pos |-> p, caps |-> NoCaps])) > 0}
    IN  IF starts = {} THEN None
        ELSE LET p  == Min(starts)
                 st == M(re, s, [pos |-> p, caps |-> NoCaps])[1]
             IN  Some([index |-> p, m0 |-> SubSeq(s, p, st.pos - 1),
                       g1 |-> st.caps[1], g2 |-> st.caps[2], g3 |-> st.caps[3]])

----------------------------------------------------------------------------
\* parseDurationFromText (lines 41-77)

W_for     == <<"f", "o", "r">>
W_hour    == <<"h", "o", "u", "r">>
W_hr      == <<"h", "r">>
W_minute  == <<"m", "i", "n", "u", "t", "e">>
W_min     == <<"m", "i", "n">>
W_meeting == <<"m", "e", "e", "t", "i", "n", "g">>
W_call    == <<"c", "a", "l", "l">>
W_session == <<"s", "e", "s", "s", "i", "o", "n">>
W_event   == <<"e", "v", "e", "n", "t">>

\* \d+(?:\.\d+)?
reDecimal == Cat(<<Plus(DigitSet), Opt(Cat(<<Chr({"."}), Plus(DigitSet)>>))>>)
\* (?:hours?|hrs?)
reHours == Alt(<<Cat(<<Lit(W_hour), Opt(Chr({"s"}))>>), Cat(<<Lit(W_hr), Opt(Chr({"s"}))>>)>>)
\* (?:minutes?|mins?)
reMinutes == Alt(<<Cat(<<Lit(W_minute), Opt(Chr({"s"}))>>), Cat(<<Lit(W_min), Opt(Chr({"s"}))>>)>>)
\* (?:meeting|call|session|event)
reKind == Alt(<<Lit(W_meeting), Lit(W_call), Lit(W_session), Lit(W_event)>>)

\* The five patterns of lines 43-47, in the order of the array.
pattern1 ==
    Cat(<<WB, Lit(W_for), Plus(WsSet), Grp(1, reDecimal), Star(WsSet), reHours, WB>>)
pattern2 ==
    Cat(<<WB, Lit(W_for), Plus(WsSet), Grp(1, Plus(DigitSet)), Star(WsSet), reMinutes, WB>>)
pattern3 ==
    Cat(<<WB, Lit(W_for), Plus(WsSet), Grp(1, Plus(DigitSet)),
          Alt(<<Cat(<<Chr({":"}), Grp(2, Plus(DigitSet))>>),
                Cat(<<Chr({"h"}),
                      Opt(Cat(<<Star(WsSet), Grp(3, Plus(DigitSet)), Opt(Chr({"m"}))>>))>>)>>),
          WB>>)
pattern4 ==
    Cat(<<WB, Grp(1, reDecimal), Star(WsSet), reHours, Plus(WsSet), reKind, WB>>)
pattern5 ==
    Cat(<<WB, Grp(1, Plus(DigitSet)), Star(WsSet), reMinutes, Plus(WsSet), reKind, WB>>)

\* pattern.source, the text of each pattern between its slashes.
source1 ==
    <<"\\", "b", "f", "o", "r", "\\", "s", "+", "(", "\\", "d", "+", "(",
      "?", ":", "\\", ".", "\\", "d", "+", ")", "?", ")", "\\", "s", "*",
      "(", "?", ":", "h", "o", "u", "r", "s", "?", "|", "h", "r", "s", "?",
      ")", "\\", "b">>
source2 ==
    <<"\\", "b", "f", "o", "r", "\\", "s", "+", "(", "\\", "d", "+", ")",
      "\\", "s", "*", "(", "?", ":", "m", "i", "n", "u", "t", "e", "s", "?",
      "|", "m", "i", "n", "s", "?", ")", "\\", "b">>
source3 ==
    <<"\\", "b", "f", "o", "r", "\\", "s", "+", "(", "\\", "d", "+", ")",
      "(", "?", ":", ":", "(", "\\", "d", "+", ")", "|", "h", "(", "?", ":",
      "\\", "s", "*", "(", "\\", "d", "+", ")", "m", "?", ")", "?", ")",
      "\\", "b">>
source4 ==
    <<"\\", "b", "(", "\\", "d", "+", "(", "?", ":", "\\", ".", "\\", "d",
      "+", ")", "?", ")", "\\", "s", "*", "(", "?", ":", "h", "o", "u", "r",
      "s", "?", "|", "h", "r", "s", "?", ")", "\\", "s", "+", "(", "?", ":",
      "m", "e", "e", "t", "i", "n", "g", "|", "c", "a", "l", "l", "|", "s",
      "e", "s", "s", "i", "o", "n", "|", "e", "v", "e", "n", "t", ")", "\\",
      "b">>
source5 ==
    <<"\\", "b", "(", "\\", "d", "+", ")", "\\", "s", "*", "(", "?", ":",
      "m", "i", "n", "u", "t", "e", "s", "?", "|", "m", "i", "n", "s", "?",
      ")", "\\", "s", "+", "(", "?", ":", "m", "e", "e", "t", "i", "n", "g",
      "|", "c", "a", "l", "l", "|", "s", "e", "s", "s", "i", "o", "n", "|",
      "e", "v", "e", "n", "t", ")", "\\", "b">>
durationPatterns ==
    <<[re |-> pattern1, source |-> source1],
      [re |-> pattern2, source |-> source2],
      [re |-> pattern3, source |-> source3],
      [re |-> pattern4, source |-> source4],
      [re |-> pattern5, source |-> source5]>>

\* The branch of lines 55-67 each pattern takes, decided by its source text.
isHourPattern ==
    [k \in 1..5 |-> includes(durationPatterns[k].source, W_hour)
                    \/ includes(durationPatterns[k].source, W_hr)]
isMinutePattern ==
    [k \in 1..5 |-> includes(durationPatterns[k].source, W_minute)
                    \/ includes(durationPatterns[k].source, W_min)]

\* Math.round(parseFloat(g) * 60) for g of the form \d+(?:\.\d+)?, computed
\* exactly: round half up of (whole.frac) * 60.
roundHours(g) ==
    LET dot   == indexOf(g, <<".">>)
        whole == IF dot = 0 THEN g ELSE SubSeq(g, 1, dot - 1)
        frac  == IF dot = 0 THEN <<>> ELSE SubSeq(g, dot + 1, Len(g))
        scale == Pow10(Len(frac))
        num   == parseInt(whole) * scale + parseInt(frac)
    IN  (num * 120 + scale) \div (2 * scale)

\* Lines 53-67: the minutes a match of pattern k stands for.
matchMinutes(k, m) ==
    IF isHourPattern[k]
    THEN roundHours(m.g1)
         + (IF Len(m.g2) > 0 THEN parseInt(m.g2)
            ELSE IF Len(m.g3) > 0 THEN parseInt(m.g3) ELSE 0)
    ELSE IF isMinutePattern[k] THEN parseInt(m.g1)
    ELSE IF Len(m.g2) > 0 THEN parseInt(m.g1) * 60 + parseInt(m.g2)
    ELSE 0

\* acceptMinutes letting a zero through.
acceptMinutesNonNegative(minutes) == minutes >= 0

\* Line 69: the guard under which a match is accepted.
acceptMinutes(minutes) == minutes > 0

\* Line 70: the text left once the match is taken out.
cleanInput(input, m) == trim(collapseWs(replaceFirst(input, m.m0)))

\* The loop without its early return: the last pattern that yields a positive
\* count wins.
RECURSIVE parseDurationLastWins(_, _)
parseDurationLastWins(k, input) ==
    IF k > Len(durationPatterns)
    THEN [durationMinutes |-> None, cleanedInput |-> input]
    ELSE IF isSome(parseDurationLastWins(k + 1, input).durationMinutes)
    THEN parseDurationLastWins(k + 1, input)
    ELSE IF isSome(match(input, durationPatterns[k].re))
            /\ matchMinutes(k, match(input, durationPatterns[k].re)[1]) > 0
    THEN [durationMinutes |->
              Some(matchMinutes(k, match(input, durationPatterns[k].re)[1])),
          cleanedInput |-> cleanInput(input, match(input, durationPatterns[k].re)[1])]
    ELSE [durationMinutes |-> None, cleanedInput |-> input]

\* Lines 50-76: the loop over the patterns from index k on.
RECURSIVE parseDurationFrom(_, _)
parseDurationFrom(k, input) ==
    IF k > Len(durationPatterns)
    THEN [durationMinutes |-> None, cleanedInput |-> input]
    ELSE LET mm      == match(input, durationPatterns[k].re)
             minutes == IF isSome(mm) THEN matchMinutes(k, mm[1]) ELSE 0
         IN  IF isSome(mm) /\ acceptMinutes(minutes)
             THEN [durationMinutes |-> Some(minutes),
                   cleanedInput |-> cleanInput(input, mm[1])]
             ELSE parseDurationFrom(k + 1, input)

parseDurationFromText(input) == parseDurationFrom(1, input)

----------------------------------------------------------------------------
\* Sherlock.parse (src/src/types/sherlockjs.d.ts), the external title / date
\* parser. Only its result shape is fixed by the repository, so it is
\* modelled on a small vocabulary, after the examples of src/README.md: the
\* word "Lunch" is a title, "at 3pm" a time on day 1, "to 4pm" the end of a
\* range that has a start time, and "Friday" a date without a time (an all-day
\* event starting at local midnight of day 5). Text without these words has
\* neither title nor dates.

W_Lunch ==
    <<"L", "u", "n", "c", "h">>
W_at3pm ==
    <<"a", "t", " ", "3", "p", "m">>
W_to4pm ==
    <<"t", "o", " ", "4", "p", "m">>
W_Friday ==
    <<"F", "r", "i", "d", "a", "y">>
sherlockParse(text, zone) ==
    LET timed == includes(text, W_at3pm)
        dated == includes(text, W_Friday)
    IN  [eventTitle |-> IF includes(text, W_Lunch) THEN Some(W_Lunch) ELSE None,
         startDate  |-> IF timed THEN Some(1440 + 15 * 60 - zone)
                        ELSE IF dated THEN Some(5 * 1440 - zone)
                        ELSE None,
         endDate    |-> IF timed /\ includes(text, W_to4pm)
                        THEN Some(1440 + 16 * 60 - zone) ELSE None,
         isAllDay   |-> ~timed /\ dated]

\* parseNaturalLanguage (lines 79-87).
parseNaturalLanguage(input, zone) ==
    LET d == parseDurationFromText(input)
        r == sherlockParse(d.cleanedInput, zone)
    IN  [eventTitle |-> r.eventTitle, startDate |-> r.startDate,
         endDate |-> r.endDate, isAllDay |-> r.isAllDay,
         durationMinutes |-> d.durationMinutes]

\* The event of lines 171-177, 218 and 288.
EmptyEvent ==
    [eventTitle |-> None, startDate |-> None, endDate |-> None,
     isAllDay |-> FALSE, durationMinutes |-> None]

\* Truthiness of a string | null and of a number | null.
truthyString(o) == isSome(o) /\ Len(o[1]) > 0
truthyNumber(o) == isSome(o) /\ o[1] # 0

----------------------------------------------------------------------------
\* The preview / submission reconciler

\* Number(preferences.defaultEventDuration) || 30 (lines 120 and 258). The
\* preference is None when it is unset or not a number.
defaultDuration(pref) == IF truthyNumber(pref) THEN pref[1] ELSE 30

\* formatDuration (lines 139-149), as the pieces of the string it returns.
formatDuration(minutes) ==
    IF minutes < 60 THEN <<minutes, "min">>
    ELSE IF minutes % 60 = 0 THEN <<minutes \div 60, "h">>
    ELSE <<minutes \div 60, "h ", minutes % 60, "m">>

\* toLocaleString / toLocaleTimeString at minute resolution, and the date of
\* toISOString().split("T")[0].
localDate(instant, zone) == (instant + zone) \div 1440
localTime(instant, zone) == (instant + zone) % 1440
isoDate(instant) == instant \div 1440

\* previewEnd without the branch for the extracted duration, as in the first
\* version of the command (lines 490-504).
previewEndNoDuration(ev, pref) ==
    IF isSome(ev.endDate)
    THEN [endDate |-> ev.endDate[1], durationNote |-> <<>>]
    ELSE [endDate |-> ev.startDate[1] + defaultDuration(pref),
          durationNote |-> <<defaultDuration(pref), "min default">>]

\* Lines 111-123 of formatPreview: the end of a timed event and its note.
previewEnd(ev, pref) ==
    IF isSome(ev.endDate)
    THEN [endDate |-> ev.endDate[1], durationNote |-> <<>>]
    ELSE IF truthyNumber(ev.durationMinutes)
    THEN [endDate |-> ev.startDate[1] + ev.durationMinutes[1],
          durationNote |-> formatDuration(ev.durationMinutes[1])]
    ELSE [endDate |-> ev.startDate[1] + defaultDuration(pref),
          durationNote |-> <<defaultDuration(pref), "min default">>]

\* formatPreview (lines 89-137), as the parts of the text it returns.
formatPreview(ev, guests, pref, zone) ==
    IF ~isSome(ev.startDate)
    THEN [placeholder |-> TRUE, title |-> None, startStr |-> <<>>, allDay |-> FALSE,
          endStr |-> None, durationNote |-> <<>>, guests |-> <<>>]
    ELSE [placeholder |-> FALSE,
          title |-> IF truthyString(ev.eventTitle) THEN ev.eventTitle ELSE None,
          startStr |-> IF ev.isAllDay
                       THEN <<localDate(ev.startDate[1], zone)>>
                       ELSE <<localDate(ev.startDate[1], zone),
                              localTime(ev.startDate[1], zone)>>,
          allDay |-> ev.isAllDay,
          endStr |-> IF ev.isAllDay THEN None
                     ELSE Some(localTime(previewEnd(ev, pref).endDate, zone)),
          durationNote |-> IF ev.isAllDay THEN <<>>
                           ELSE previewEnd(ev, pref).durationNote,
          guests |-> guests]

\* Line 238: the guard of onSubmit.
canSubmit(ev) == isSome(ev.startDate) /\ truthyString(ev.eventTitle)

\* submitEnd with the extracted duration tried before the parser's end.
submitEndDurationFirst(ev, pref) ==
    IF truthyNumber(ev.durationMinutes)
    THEN ev.startDate[1] + ev.durationMinutes[1]
    ELSE IF isSome(ev.endDate) THEN ev.endDate[1]
    ELSE ev.startDate[1] + defaultDuration(pref)

\* Lines 252-260 of onSubmit: the end of the event.
submitEnd(ev, pref) ==
    IF isSome(ev.endDate) THEN ev.endDate[1]
    ELSE IF truthyNumber(ev.durationMinutes)
    THEN ev.startDate[1] + ev.durationMinutes[1]
    ELSE ev.startDate[1] + defaultDuration(pref)

\* Lines 262-276 of onSubmit: the request body.
requestBody(ev, guests, pref) ==
    [summary   |-> ev.eventTitle[1],
     allDay    |-> ev.isAllDay,
     start     |-> IF ev.isAllDay THEN isoDate(ev.startDate[1]) ELSE ev.startDate[1],
     end       |-> IF ev.isAllDay THEN isoDate(submitEnd(ev, pref))
                   ELSE submitEnd(ev, pref),
     attendees |-> guests]

\* Lines 229-232: the checks of the validation, on the text and the event
\* parsed from it; None when they pass.
validationMessage(value, result) ==
    IF Len(trim(value)) = 0 THEN Some("Please enter an event description")
    ELSE IF ~isSome(result.startDate) THEN Some("Could not detect a date/time")
    ELSE IF ~truthyString(result.eventTitle) THEN Some("Could not detect an event title")
    ELSE None

\* Lines 228-233: the validation of the input field.
validateInput(value, zone) ==
    validationMessage(value, parseNaturalLanguage(value, zone))

\* Lines 238-283 of onSubmit, on the event parsed at line 236: what is
\* reported and what is handed to calendar.events.insert.
onSubmitResult(result, guests, pref) ==
    IF ~canSubmit(result)
    THEN [outcome |-> "unparsed", message |-> "Could not parse event", request |-> None,
          toast |-> Some([style |-> "failure", title |-> "Could not parse event"])]
    ELSE [outcome |-> "called", message |-> "",
          request |-> Some(requestBody(result, guests, pref)),
          toast |-> Some([style |-> "animated", title |-> "Creating event"])]

\* useForm's handleSubmit: onSubmit runs only when the validation passes.
handleSubmitResult(invalid, submitted) ==
    IF isSome(invalid)
    THEN [outcome |-> "invalid", message |-> invalid[1], request |-> None, toast |-> None]
    ELSE submitted

\* handleSubmit asking for a date only: a text without a title goes through.
handleSubmitDateOnly(value, guests, pref, zone) ==
    IF Len(trim(value)) > 0 /\ isSome(parseNaturalLanguage(value, zone).startDate)
    THEN [outcome |-> "called", message |-> "",
          request |-> Some([summary |-> <<>>, allDay |-> FALSE, start |-> 0, end |-> 0,
                            attendees |-> guests]),
          toast |-> Some([style |-> "animated", title |-> "Creating event"])]
    ELSE [outcome |-> "invalid", message |-> "Could not detect a date/time",
          request |-> None, toast |-> None]

handleSubmit(value, guests, pref, zone) ==
    handleSubmitResult(validateInput(value, zone),
                       onSubmitResult(parseNaturalLanguage(value, zone), guests, pref))

\* Line 341: the "Open in Full Form" action is rendered.
canOpenFullForm(ev) == isSome(ev.startDate) /\ truthyString(ev.eventTitle)

\* The duration exported from the event's duration, ahead of its end.
fullFormDurationExtractedFirst(ev) ==
    IF isSome(ev.durationMinutes) THEN Some(<<ev.durationMinutes[1], "min">>)
    ELSE IF isSome(ev.endDate) /\ ev.endDate[1] # ev.startDate[1]
    THEN Some(<<ev.endDate[1] - ev.startDate[1], "min">>)
    ELSE None

\* Lines 355-357 and 365: durationMin and the duration of the context, as
\* <<n, "min">>. Instants are whole minutes, which Math.round leaves alone; a
\* durationMin of 0, null or undefined is falsy.
fullFormDuration(ev) ==
    LET durationMin == IF isSome(ev.endDate)
                       THEN Some(ev.endDate[1] - ev.startDate[1])
                       ELSE ev.durationMinutes
    IN  IF isSome(durationMin) /\ durationMin[1] # 0
        THEN Some(<<durationMin[1], "min">>)
        ELSE None

\* selectedGuests.join(",") (line 367), as the sequence of its pieces.
RECURSIVE joinComma(_)
joinComma(guests) ==
    IF Len(guests) = 0 THEN <<>>
    ELSE IF Len(guests) = 1 THEN <<guests[1]>>
    ELSE <<guests[1], ",">> \o joinComma(Tail(guests))

\* Lines 362-368: the context handed to launchCommand. The calendar chosen
\* (line 366) is not part of the model.
fullFormContext(ev, guests) ==
    [title     |-> ev.eventTitle[1],
     startDate |-> ev.startDate[1],
     duration  |-> fullFormDuration(ev),
     attendees |-> joinComma(guests)]

----------------------------------------------------------------------------
\* The duration extractor on its own: an input text is drawn, the extractor is
\* applied to it, and then once more to the text it returned.

\* "for 1 hour"
F_for1hour ==
    <<"f", "o", "r", " ", "1", " ", "h", "o", "u", "r">>
\* "for 0 hours"
F_for0hours ==
    <<"f", "o", "r", " ", "0", " ", "h", "o", "u", "r", "s">>
\* "for 30 min"
F_for30min ==
    <<"f", "o", "r", " ", "3", "0", " ", "m", "i", "n">>
\* "for 1:30"
F_for1c30 ==
    <<"f", "o", "r", " ", "1", ":", "3", "0">>
\* "for 2h"
F_for2h ==
    <<"f", "o", "r", " ", "2", "h">>
\* " 30m"
F_30m ==
    <<" ", "3", "0", "m">>
\* " "
F_sp ==
    <<" ">>
\* "x"
F_x ==
    <<"x">>
\* "for"
F_for ==
    <<"f", "o", "r">>
\* "1.5 HRS call"
F_15HRScall ==
    <<"1", ".", "5", " ", "H", "R", "S", " ", "c", "a", "l", "l">>
\* "45 mins event"
F_45minsevent ==
    <<"4", "5", " ", "m", "i", "n", "s", " ", "e", "v", "e", "n", "t">>

Frags == {F_for1hour,
          F_for0hours,
          F_for30min,
          F_for1c30,
          F_for2h,
          F_30m,
          F_sp,
          F_x,
          F_for,
          F_15HRScall,
          F_45minsevent}

MaxFrags == 3

\* Texts of the documentation and texts around one phrase, taken whole.
\* "Meeting with John tomorrow at 3pm for 1 hour"
E_scenario ==
    <<"M", "e", "e", "t", "i", "n", "g", " ", "w", "i", "t", "h", " ", "J",
      "o", "h", "n", " ", "t", "o", "m", "o", "r", "r", "o", "w", " ", "a",
      "t", " ", "3", "p", "m", " ", "f", "o", "r", " ", "1", " ", "h", "o",
      "u", "r">>
\* "Sync for 2 hours for 90 minutes"
E_hoursFirst ==
    <<"S", "y", "n", "c", " ", "f", "o", "r", " ", "2", " ", "h", "o", "u",
      "r", "s", " ", "f", "o", "r", " ", "9", "0", " ", "m", "i", "n", "u",
      "t", "e", "s">>
\* "Sync for 90 minutes for 2 hours"
E_minutesFirst ==
    <<"S", "y", "n", "c", " ", "f", "o", "r", " ", "9", "0", " ", "m", "i",
      "n", "u", "t", "e", "s", " ", "f", "o", "r", " ", "2", " ", "h", "o",
      "u", "r", "s">>
\* "for 2 hour meeting"
E_hourMeeting ==
    <<"f", "o", "r", " ", "2", " ", "h", "o", "u", "r", " ", "m", "e", "e",
      "t", "i", "n", "g">>
\* "therefor 1 hour wait for 1 hour"
E_therefor ==
    <<"t", "h", "e", "r", "e", "f", "o", "r", " ", "1", " ", "h", "o", "u",
      "r", " ", "w", "a", "i", "t", " ", "f", "o", "r", " ", "1", " ", "h",
      "o", "u", "r">>
\* "Sync<tab>for 2h 30m  today"
E_tabs ==
    <<"S", "y", "n", "c", "\t", "f", "o", "r", " ", "2", "h", " ", "3", "0",
      "m", " ", " ", "t", "o", "d", "a", "y">>

EdgeInputs == {E_scenario, E_hoursFirst, E_minutesFirst, E_hourMeeting, E_therefor, E_tabs}

RECURSIVE concat(_)
concat(fs) == IF Len(fs) = 0 THEN <<>> ELSE Head(fs) \o concat(Tail(fs))

\* The texts made of at most MaxFrags fragments, and the texts taken whole.
DurInputs ==
    {concat(fs) : fs \in UNION {[1..n -> Frags] : n \in 0..MaxFrags}} \cup EdgeInputs

NoExtraction == [durationMinutes |-> None, cleanedInput |-> <<>>]

DurIdle == durIn = <<>> /\ durOut = NoExtraction /\ durOut2 = NoExtraction /\ durPc = "off"

InitDur ==
    /\ durIn \in DurInputs
    /\ durOut = NoExtraction
    /\ durOut2 = NoExtraction
    /\ durPc = "input"

DurApply ==
    /\ durPc = "input"
    /\ durOut' = parseDurationFromText(durIn)
    /\ durPc' = "applied"
    /\ UNCHANGED <<durIn, durOut2, prefs, tz, formVars, recVars>>

DurReapply ==
    /\ durPc = "applied"
    /\ durOut2' = parseDurationFromText(durOut.cleanedInput)
    /\ durPc' = "reapplied"
    /\ UNCHANGED <<durIn, durOut, prefs, tz, formVars, recVars>>

----------------------------------------------------------------------------
\* The environment: the configured default duration and the local time zone.

PrefSet == {None, Some(0), Some(15), Some(30), Some(60)}
TzOffsets == {-60, 0, 120}
GuestLists == {<<>>, <<"ann@example.com">>}

----------------------------------------------------------------------------
\* The reconciler on its own: an event is drawn and previewed, and then it is
\* either submitted or handed to the full form.

Instants == {1440 + 15 * 60, 1440 + 16 * 60 + 30, 1440 + 23 * 60 + 30, 2 * 1440}

\* The events parseNaturalLanguage can return: a duration is absent or positive.
Events ==
    [eventTitle : {None, Some(W_Lunch)},
     startDate : {None} \cup {Some(i) : i \in Instants},
     endDate : {None} \cup {Some(i) : i \in Instants},
     isAllDay : BOOLEAN,
     durationMinutes : {None, Some(45), Some(90), Some(24 * 60)}]

NoPreview == formatPreview(EmptyEvent, <<>>, None, 0)

RecIdle ==
    /\ recEv = EmptyEvent /\ recGuests = <<>> /\ recPreview = NoPreview
    /\ recRequest = None /\ recLaunched = None /\ recPc = "off"

RecGuestLists == GuestLists \cup {<<"ann@example.com", "bob@example.com">>}

InitRec ==
    /\ recEv \in Events
    /\ recGuests \in RecGuestLists
    /\ recPreview = NoPreview
    /\ recRequest = None
    /\ recLaunched = None
    /\ recPc = "event"

\* The render of line 383.
RecPreview ==
    /\ recPc = "event"
    /\ recPreview' = formatPreview(recEv, recGuests, prefs, tz)
    /\ recPc' = "previewed"
    /\ UNCHANGED <<recEv, recGuests, recRequest, recLaunched, prefs, tz, formVars,
                   durVars>>

\* onSubmit up to the call of calendar.events.insert (lines 236-283).
RecSubmit ==
    /\ recPc = "previewed"
    /\ recRequest' = onSubmitResult(recEv, recGuests, prefs).request
    /\ recPc' = "submitted"
    /\ UNCHANGED <<recEv, recGuests, recPreview, recLaunched, prefs, tz, formVars,
                   durVars>>

\* The "Open in Full Form" action (lines 349-371), there when canOpenFullForm.
RecOpen ==
    /\ recPc = "previewed"
    /\ canOpenFullForm(recEv)
    /\ recLaunched' = Some(fullFormContext(recEv, recGuests))
    /\ recPc' = "opened"
    /\ UNCHANGED <<recEv, recGuests, recPreview, recRequest, prefs, tz, formVars,
                   durVars>>

----------------------------------------------------------------------------
\* The Command component (lines 167-427)

\* The texts the user types.
T_empty      == <<>>
T_blank      == F_sp
T_title      == W_Lunch
T_untitled   == W_at3pm \o F_sp \o F_for1hour
T_timed      == W_Lunch \o F_sp \o W_at3pm \o F_sp \o F_for1hour
T_range      == W_Lunch \o F_sp \o W_at3pm \o F_sp \o W_to4pm \o F_sp \o F_for30min
T_allDay     == W_Lunch \o F_sp \o W_Friday
T_zero       == W_Lunch \o F_sp \o W_at3pm \o F_sp \o F_for0hours
TypedTexts == {T_empty, T_blank, T_title, T_untitled, T_timed, T_range, T_allDay, T_zero}

\* parseNaturalLanguage and handleSubmit are pure: their values on the typed
\* texts are computed once and looked up by the actions.
parsedOf ==
    [value \in TypedTexts, zone \in TzOffsets |-> parseNaturalLanguage(value, zone)]
submittedOf ==
    [value \in TypedTexts, guests \in GuestLists, pref \in PrefSet, zone \in TzOffsets |->
        handleSubmit(value, guests, pref, zone)]

MaxSubmits == 2

NoToast == [style |-> "none", title |-> ""]
NoSubmit == [text |-> <<>>, outcome |-> "none", message |-> ""]

FormIdle ==
    /\ inputValue = <<>> /\ formInput = <<>> /\ parsed = EmptyEvent
    /\ guestSearch = <<>>
    /\ selectedGuests = <<>> /\ pending = <<>> /\ calls = <<>>
    /\ toast = NoToast /\ lastSubmit = NoSubmit /\ submits = 0
    /\ stale = <<>>

\* Lines 169-181 and 223-226: the state of a freshly mounted component.
InitForm == FormIdle

otherVars == <<prefs, tz, durVars, recVars>>

\* inputProps.onChange (lines 327-330) with handleInputChange (lines 212-220):
\* the user changes the text of the field.
HandleInputChange(value) ==
    /\ value # formInput
    /\ inputValue' = value
    /\ formInput' = inputValue'
    /\ parsed' = IF Len(trim(value)) > 0
                 THEN parsedOf[value, tz]
                 ELSE EmptyEvent
    /\ stale' = [i \in 1..Len(pending) |-> TRUE]
    /\ UNCHANGED <<guestSearch, selectedGuests, pending, calls, toast, lastSubmit,
                   submits>>
    /\ UNCHANGED otherVars

\* The guest search field (line 392).
SetGuestSearch(value) ==
    /\ guestSearch' = value
    /\ UNCHANGED <<inputValue, formInput, parsed, selectedGuests, pending, calls,
                   toast, lastSubmit, submits, stale>>
    /\ UNCHANGED otherVars

\* The guest picker (line 400).
SetSelectedGuests(value) ==
    /\ selectedGuests' = value
    /\ UNCHANGED <<inputValue, formInput, parsed, guestSearch, pending, calls,
                   toast, lastSubmit, submits, stale>>
    /\ UNCHANGED otherVars

\* The effect of a handleSubmit run with result r on the component.
SubmitEffect(value, r) ==
    /\ lastSubmit' = [text |-> value, outcome |-> r.outcome, message |-> r.message]
    /\ toast' = IF isSome(r.toast) THEN r.toast[1] ELSE toast
    /\ calls' = calls \o r.request
    /\ pending' = pending \o r.request
    /\ stale' = stale \o [i \in 1..Len(r.request) |-> FALSE]

\* handleSubmit: the validation of lines 227-234, then onSubmit (lines 235-283)
\* up to the point where it awaits calendar.events.insert. The text submitted
\* is the value of the field "input".
Submit ==
    /\ submits < MaxSubmits
    /\ submits' = submits + 1
    /\ SubmitEffect(formInput, submittedOf[formInput, selectedGuests, prefs, tz])
    /\ UNCHANGED <<inputValue, formInput, parsed, guestSearch, selectedGuests>>
    /\ UNCHANGED otherVars

removeAt(seq, k) == SubSeq(seq, 1, k - 1) \o SubSeq(seq, k + 1, Len(seq))

\* InsertResolved leaving the previewed event as it was.
InsertResolvedKeepsPreview(k) ==
    /\ k \in 1..Len(pending)
    /\ inputValue' = <<>>
    /\ formInput' = inputValue'
    /\ guestSearch' = <<>>
    /\ selectedGuests' = <<>>
    /\ toast' = [style |-> "success", title |-> "Created"]
    /\ pending' = removeAt(pending, k)
    /\ stale' = removeAt(stale, k)
    /\ UNCHANGED <<parsed, calls, lastSubmit, submits>>
    /\ UNCHANGED otherVars

\* InsertResolved with a field "input" that keeps the text submitted.
InsertResolvedKeepsField(k) ==
    /\ k \in 1..Len(pending)
    /\ inputValue' = <<>>
    /\ guestSearch' = <<>>
    /\ selectedGuests' = <<>>
    /\ parsed' = EmptyEvent
    /\ toast' = [style |-> "success", title |-> "Created"]
    /\ pending' = removeAt(pending, k)
    /\ stale' = removeAt(stale, k)
    /\ UNCHANGED <<formInput, calls, lastSubmit, submits>>
    /\ UNCHANGED otherVars

\* calendar.events.insert resolves: lines 285-317; the field "input" is
\* rendered again with value = inputValue (line 326).
InsertResolved(k) ==
    /\ k \in 1..Len(pending)
    /\ inputValue' = <<>>
    /\ formInput' = inputValue'
    /\ guestSearch' = <<>>
    /\ selectedGuests' = <<>>
    /\ parsed' = EmptyEvent
    /\ toast' = [style |-> "success", title |-> "Created"]
    /\ pending' = removeAt(pending, k)
    /\ stale' = removeAt(stale, k)
    /\ UNCHANGED <<calls, lastSubmit, submits>>
    /\ UNCHANGED otherVars

\* InsertRejected resetting the form as a successful insert does.
InsertRejectedClears(k) ==
    /\ k \in 1..Len(pending)
    /\ inputValue' = <<>>
    /\ formInput' = inputValue'
    /\ guestSearch' = <<>>
    /\ selectedGuests' = <<>>
    /\ parsed' = EmptyEvent
    /\ toast' = [style |-> "failure", title |-> "Failed to create event"]
    /\ pending' = removeAt(pending, k)
    /\ stale' = removeAt(stale, k)
    /\ UNCHANGED <<calls, lastSubmit, submits>>
    /\ UNCHANGED otherVars

\* calendar.events.insert rejects: lines 318-320.
InsertRejected(k) ==
    /\ k \in 1..Len(pending)
    /\ toast' = [style |-> "failure", title |-> "Failed to create event"]
    /\ pending' = removeAt(pending, k)
    /\ stale' = removeAt(stale, k)
    /\ UNCHANGED <<inputValue, formInput, parsed, guestSearch, selectedGuests,
                   calls, lastSubmit, submits>>
    /\ UNCHANGED otherVars

----------------------------------------------------------------------------
\* Specifications

InitEnv == prefs \in PrefSet /\ tz \in TzOffsets

\* The form, with the preference unset or set to an hour.
Init == prefs \in {None, Some(60)} /\ tz \in TzOffsets /\ InitForm /\ DurIdle /\ RecIdle
Next ==
    \/ \E value \in TypedTexts : HandleInputChange(value)
    \/ \E value \in {<<>>, <<"a">>} : SetGuestSearch(value)
    \/ \E value \in GuestLists : SetSelectedGuests(value)
    \/ Submit
    \/ \E k \in 1..MaxSubmits : InsertResolved(k)
    \/ \E k \in 1..MaxSubmits : InsertRejected(k)
Spec == Init /\ [][Next]_vars

\* The duration extractor on its own.
InitD == prefs = None /\ tz = 0 /\ FormIdle /\ InitDur /\ RecIdle
NextD == DurApply \/ DurReapply
SpecDur == InitD /\ [][NextD]_vars

\* The reconciler on its own.
InitR == InitEnv /\ FormIdle /\ DurIdle /\ InitRec
NextR == RecPreview \/ RecSubmit \/ RecOpen
SpecRec == InitR /\ [][NextR]_vars

----------------------------------------------------------------------------
\* Properties of the reconciler (SpecRec)

\* The default duration as configured: the preference when it is a positive
\* number, 30 minutes otherwise.
configuredDefault == IF isSome(prefs) /\ prefs[1] > 0 THEN prefs[1] ELSE 30

\* The tier that supplies the end of recEv: 1 the parser's end, 2 the extracted
\* duration, 3 the default duration.
tierOf(ev) == IF isSome(ev.endDate) THEN 1 ELSE IF isSome(ev.durationMinutes) THEN 2 ELSE 3

tierEnd(ev) ==
    CASE tierOf(ev) = 1 -> ev.endDate[1]
      [] tierOf(ev) = 2 -> ev.startDate[1] + ev.durationMinutes[1]
      [] tierOf(ev) = 3 -> ev.startDate[1] + configuredDefault

recSubmitted == recPc = "submitted" /\ isSome(recEv.startDate) /\ isSome(recEv.eventTitle)

\* C1: at submission, for an event with start and title, the end handed to the
\* calendar-write call is the parser's end if present, else start +
\* durationMinutes if present, else start + the default duration (as a date for
\* an all-day event); with start 15:00, an end of 16:30 gives 16:30 whatever the
\* duration, no end and 90 minutes give 16:30, neither and a default of 30
\* give 15:30.
C1_EndByThreeTiers ==
    recSubmitted =>
        /\ isSome(recRequest)
        /\ recRequest[1].end =
               IF recEv.isAllDay THEN tierEnd(recEv) \div 1440 ELSE tierEnd(recEv)
        /\ (~recEv.isAllDay /\ recEv.startDate = Some(1440 + 15 * 60)) =>
               /\ recEv.endDate = Some(1440 + 16 * 60 + 30)
                      => recRequest[1].end = 1440 + 16 * 60 + 30
               /\ (recEv.endDate = None /\ recEv.durationMinutes = Some(90))
                      => recRequest[1].end = 1440 + 16 * 60 + 30
               /\ (recEv.endDate = None /\ recEv.durationMinutes = None
                   /\ prefs = Some(30))
                      => recRequest[1].end = 1440 + 15 * 60 + 30

\* An event with both an end and a duration was submitted, and the end sent is
\* the parser's, not start + duration.
C1_Witness ==
    /\ recSubmitted
    /\ isSome(recEv.endDate) /\ isSome(recEv.durationMinutes)
    /\ recEv.endDate[1] # recEv.startDate[1] + recEv.durationMinutes[1]
    /\ ~recEv.isAllDay
    /\ recRequest[1].end = recEv.endDate[1]

\* The minutes a duration note stands for: "Nmin", "Xh" or "Xh Ym".
noteMinutes(note) ==
    IF Len(note) = 4 THEN note[1] * 60 + note[3]
    ELSE IF note[2] = "h" THEN note[1] * 60
    ELSE note[1]

\* C2: for a timed event with start and title, the end time the preview shows
\* is the end the submission sends, both from the same tier, and the note of
\* the preview names that tier: none for the parser's end, the duration for the
\* extracted duration, "(Nmin default)" for the default.
C2_PreviewMatchesSubmission ==
    (recSubmitted /\ ~recEv.isAllDay) =>
        /\ recRequest[1].end = tierEnd(recEv)
        /\ recPreview.endStr = Some(localTime(recRequest[1].end, tz))
        /\ CASE tierOf(recEv) = 1 -> recPreview.durationNote = <<>>
             [] tierOf(recEv) = 2 ->
                    /\ Len(recPreview.durationNote) \in {2, 4}
                    /\ recPreview.durationNote[Len(recPreview.durationNote)]
                           \in {"min", "h", "m"}
                    /\ noteMinutes(recPreview.durationNote) = recEv.durationMinutes[1]
             [] tierOf(recEv) = 3 ->
                    recPreview.durationNote = <<configuredDefault, "min default">>

\* A timed event whose end comes from the extracted duration was previewed as
\* "(1h 30m)" and submitted.
C2_Witness ==
    /\ recSubmitted /\ ~recEv.isAllDay
    /\ tierOf(recEv) = 2
    /\ recPreview.durationNote = <<1, "h ", 30, "m">>
    /\ recPreview.endStr = Some(localTime(recRequest[1].end, tz))

\* C7: for an all-day event the request sent is the same whatever
\* durationMinutes is: it is the request of the same event without a duration.
C7_AllDayIgnoresDuration ==
    (recSubmitted /\ recEv.isAllDay) =>
        recRequest = onSubmitResult([recEv EXCEPT !.durationMinutes = None],
                                    recGuests, prefs).request

\* The minutes the claim has exported: end - start with an end, else the
\* extracted duration, else none (0).
exportedMinutes(ev) ==
    IF isSome(ev.endDate) THEN ev.endDate[1] - ev.startDate[1]
    ELSE IF isSome(ev.durationMinutes) THEN ev.durationMinutes[1]
    ELSE 0

\* C12: the hand-off to the full form is there only when the previewed event
\* has a start and a title, and it exports that event's title, its start and
\* its duration: end - start in minutes with an end, else the extracted
\* duration; no duration when neither is there or the minutes are 0, and never
\* the default duration.
C12_HandoffExportsEvent ==
    /\ ENABLED RecOpen => (isSome(recEv.startDate) /\ isSome(recEv.eventTitle))
    /\ recPc = "opened" =>
           /\ isSome(recEv.startDate) /\ isSome(recEv.eventTitle)
           /\ isSome(recLaunched)
           /\ recLaunched[1].title = recEv.eventTitle[1]
           /\ recLaunched[1].startDate = recEv.startDate[1]
           /\ recLaunched[1].duration =
                  IF exportedMinutes(recEv) = 0 THEN None
                  ELSE Some(<<exportedMinutes(recEv), "min">>)
           /\ (recEv.endDate = None /\ recEv.durationMinutes = None) =>
                  recLaunched[1].duration = None

\* An event from 15:00 to 16:30 with an extracted duration of 45 minutes was
\* handed over with a duration of 90 minutes.
C12_Witness ==
    /\ recPc = "opened"
    /\ recEv.startDate = Some(1440 + 15 * 60)
    /\ recEv.endDate = Some(1440 + 16 * 60 + 30)
    /\ recEv.durationMinutes = Some(45)
    /\ recLaunched[1].duration = Some(<<90, "min">>)

----------------------------------------------------------------------------
\* Properties of the duration extractor (SpecDur)

ruleValueOf(k, mm) == IF isSome(mm) THEN matchMinutes(k, mm[1]) ELSE 0
matchSpanOf(mm) == <<mm[1].index, mm[1].index + Len(mm[1].m0) - 1>>

\* The minutes the leftmost match of pattern k in s stands for, 0 without a match.
ruleValue(k, s) == ruleValueOf(k, match(s, durationPatterns[k].re))

\* The patterns whose leftmost match in s stands for a positive count.
winners(s) == {k \in 1..5 : ruleValue(k, s) > 0}

\* The place of the leftmost match of pattern k in s, as <<first, last>>.
matchSpan(k, s) == matchSpanOf(match(s, durationPatterns[k].re))

\* C4: applying the extractor to the text it returned finds no duration and
\* leaves that text unchanged.
C4_IdempotentOnceStripped ==
    durPc = "reapplied" =>
        /\ durOut2.durationMinutes = None
        /\ durOut2.cleanedInput = durOut.cleanedInput

\* C5: the duration returned is that of the lowest-numbered pattern whose match
\* stands for a positive count, wherever the matches lie and however long they
\* are; a text with both "for 2 hours" and "for 90 minutes" gives 120 in either
\* order.
C5_FirstRuleWins ==
    durPc = "applied" =>
        /\ durOut.durationMinutes =
               IF winners(durIn) = {} THEN None
               ELSE Some(ruleValue(Min(winners(durIn)), durIn))
        /\ durIn \in {E_hoursFirst, E_minutesFirst} => durOut.durationMinutes = Some(120)

\* Patterns 1 and 2 both match with a positive count, the match of pattern 2
\* lies before that of pattern 1, and the duration returned is that of pattern 1.
C5_Witness ==
    /\ durPc = "applied"
    /\ {1, 2} \subseteq winners(durIn)
    /\ matchSpan(2, durIn)[1] < matchSpan(1, durIn)[1]
    /\ durOut.durationMinutes = Some(ruleValue(1, durIn))
    /\ ruleValue(1, durIn) # ruleValue(2, durIn)

\* C6: pattern 3 gives N*60 + MM for "for N:MM" and N*60 + M for "for Nh" and
\* "for Nh Mm" (M 0 when absent).
C6_RuleThreeBothForms ==
    durPc = "applied" =>
        /\ durIn = F_for1c30 => durOut.durationMinutes = Some(90)
        /\ durIn = F_for2h => durOut.durationMinutes = Some(120)
        /\ durIn = F_for2h \o F_30m => durOut.durationMinutes = Some(150)

\* The text with the characters first..last taken out, whitespace runs
\* collapsed and the ends trimmed.
withoutSpan(s, span) ==
    trim(collapseWs(SubSeq(s, 1, span[1] - 1) \o SubSeq(s, span[2] + 1, Len(s))))

\* C9: without a winning pattern the text comes back unchanged and no duration
\* is returned; with one, the text comes back with the occurrence that pattern
\* matched removed, whitespace runs collapsed and the ends trimmed; it is never
\* longer than the input.
C9_CleanedTextReference ==
    durPc = "applied" =>
        /\ winners(durIn) = {} =>
               durOut.cleanedInput = durIn /\ durOut.durationMinutes = None
        /\ winners(durIn) # {} =>
               durOut.cleanedInput =
                   withoutSpan(durIn, matchSpan(Min(winners(durIn)), durIn))
        /\ Len(durOut.cleanedInput) <= Len(durIn)

\* C10: the duration returned is absent or a positive integer; a match that
\* stands for no positive count changes nothing and the later patterns are still
\* tried ("for 0 hours for 30 min" gives 30 and keeps "for 0 hours"); when no
\* pattern is left the text comes back as it was, and an event without an end
\* then ends at start + the default duration.
C10_PositiveOrAbsent ==
    durPc = "applied" =>
        /\ isSome(durOut.durationMinutes) =>
               durOut.durationMinutes[1] \in Nat /\ durOut.durationMinutes[1] > 0
        /\ isSome(durOut.durationMinutes) <=> winners(durIn) # {}
        /\ durIn = F_for0hours \o F_sp \o F_for30min =>
               /\ durOut.durationMinutes = Some(30)
               /\ durOut.cleanedInput = F_for0hours
        /\ ~isSome(durOut.durationMinutes) =>
               /\ durOut.cleanedInput = durIn
               /\ \A start \in Instants, pref \in PrefSet :
                      submitEnd([EmptyEvent EXCEPT !.startDate = Some(start),
                                     !.durationMinutes = durOut.durationMinutes], pref)
                          = start + defaultDuration(pref)

\* Pattern 1 matched "for 0 hours", the match was passed over, and pattern 2
\* supplied the duration.
C10_Witness ==
    /\ durPc = "applied"
    /\ isSome(match(durIn, durationPatterns[1].re))
    /\ ruleValue(1, durIn) = 0
    /\ durOut.durationMinutes = Some(30)
    /\ includes(durOut.cleanedInput, F_for0hours)

----------------------------------------------------------------------------
\* Properties of the form (Spec)

\* The event resolved from the text a submission reads has a start and a title.
resolvable == Len(trim(formInput)) > 0
                  /\ isSome(parsedOf[formInput, tz].startDate)
                  /\ isSome(parsedOf[formInput, tz].eventTitle)

\* C3: a submission hands a request to the calendar-write call exactly when the
\* event resolved from the submitted text has a start and a title; otherwise it
\* ends with a validation message or a failure notification and no request is
\* made.
C3_WriteIffStartAndTitle ==
    [][submits' = submits + 1 =>
          /\ resolvable =>
                 /\ lastSubmit'.outcome = "called"
                 /\ Len(calls') = Len(calls) + 1
                 /\ pending' = Append(pending, calls'[Len(calls')])
          /\ ~resolvable =>
                 /\ lastSubmit'.outcome \in {"invalid", "unparsed"}
                 /\ lastSubmit'.message # ""
                 /\ lastSubmit'.outcome = "unparsed" => toast'.style = "failure"
                 /\ calls' = calls /\ pending' = pending]_vars

\* One submission was handed to the calendar-write call and a later one, of a
\* text without a title, ended with the validation message.
C3_Witness ==
    /\ submits = 2
    /\ Len(calls) = 1
    /\ lastSubmit.outcome = "invalid"
    /\ lastSubmit.text = T_untitled
    /\ lastSubmit.message = "Could not detect an event title"

formState == <<inputValue, parsed, guestSearch, selectedGuests>>

\* C8: when the calendar-write call rejects, a failure notification is shown,
\* no further call is made, and the input text, the previewed event, the guest
\* search and the selected guests keep their values; only a call that succeeds
\* clears them. Every submission that passes the start / title gate makes
\* exactly one call.
C8_RejectionKeepsState ==
    [][/\ Len(pending') < Len(pending) =>
              /\ calls' = calls
              /\ Len(pending') = Len(pending) - 1
              /\ IF toast'.style = "success"
                 THEN formState' = <<<<>>, EmptyEvent, <<>>, <<>>>>
                 ELSE /\ toast' = [style |-> "failure", title |-> "Failed to create event"]
                      /\ formState' = formState
       /\ submits' = submits + 1 =>
              /\ formState' = formState
              /\ Len(calls') = Len(calls) + (IF lastSubmit'.outcome = "called" THEN 1 ELSE 0)
       /\ submits' = submits => calls' = calls]_vars

\* A call was rejected while a text, a previewed event, a guest search and a
\* guest were in the form, and they are all still there.
C8_Witness ==
    /\ toast = [style |-> "failure", title |-> "Failed to create event"]
    /\ inputValue = T_timed
    /\ parsed = parsedOf[T_timed, tz]
    /\ guestSearch # <<>>
    /\ selectedGuests # <<>>
    /\ pending = <<>>
    /\ Len(calls) = 1

\* The event handleInputChange shows for a text (lines 214-219).
resolve(t) == IF Len(trim(t)) > 0 THEN parsedOf[t, tz] ELSE EmptyEvent

\* C11: a text change puts its text and the event resolved from it in
\* inputValue and parsed, and they stay until the next text change or until a
\* submission started after that text change succeeds: no other step, and no
\* outcome of a submission started before the text change, changes them.
C11_NewerTextNotOverwritten ==
    [][/\ (formInput' # formInput /\ pending' = pending) =>
              /\ inputValue' = formInput'
              /\ parsed' = resolve(formInput')
       /\ (<<inputValue, parsed>>' # <<inputValue, parsed>> /\ pending' # pending) =>
              \E k \in 1..Len(pending) :
                  /\ pending' = removeAt(pending, k)
                  /\ stale' = removeAt(stale, k)
                  /\ ~stale[k]]_vars

\* C13: in every state of the form the previewed event is the one
\* parseNaturalLanguage gives for inputValue when inputValue has a character
\* that is not whitespace, and the empty event otherwise.
C13_PreviewFollowsInput ==
    /\ parsed = resolve(inputValue)
    /\ Len(trim(inputValue)) = 0 => parsed = EmptyEvent

\* After a creation that succeeded, a text of whitespace only was typed and
\* its submission was turned down by the validation; the preview is empty.
C13_Witness ==
    /\ Len(calls) = 1 /\ pending = <<>>
    /\ toast.style = "success"
    /\ submits = 2
    /\ lastSubmit.outcome = "invalid"
    /\ inputValue = T_blank
    /\ parsed = EmptyEvent

====
